---- MODULE Spec2Model ----
(***************************************************************************)
(* Model of src/main.py: a bot that polls the timeline of each configured  *)
(* account, relays the posts that are not in its dedupe history to a       *)
(* Telegram chat and persists the history and a run state between runs.    *)
(*                                                                         *)
(* main.py holds three overlapping revisions of the body of main's loop    *)
(* over the accounts:                                                      *)
(*   A  lines 289-317, the header that takes the single post returned by   *)
(*      get_latest_tweet; it replaces lines 318-338 and is followed by the *)
(*      delivery loop of lines 340-363;                                    *)
(*   B  lines 318-363, the header that reads the whole response            *)
(*      (tweets_response) and the same delivery loop;                      *)
(*   C  lines 364-407, which records a post in the history when it is      *)
(*      found new, before it is sent.                                      *)
(* Each revision is modelled from its own lines; the variable rev says     *)
(* which one a behaviour executes, so a property holds of the program only *)
(* if it holds for every revision.                                         *)
(*                                                                         *)
(* Post ids are modelled as integers of equal decimal width, for which the *)
(* comparison of the id strings by list.sort agrees with numeric order.    *)
(* A history is modelled by the set of ids of its list: the code only      *)
(* appends an id that is not in the list and only tests membership.        *)
(***************************************************************************)
EXTENDS Integers, Sequences, FiniteSets, TLC

\* ------------------------------------------------------------------ bounds
\* Number of process invocations (runs of main) in a behaviour.
MaxRuns == 2
\* Number of faults of the environment in a behaviour: an answer of the
\* provider that is not a success, a post without text, a failed delivery, a
\* failed write, a kill of the process during a write.
MaxFaults == 3

\* ------------------------------------------------------- program constants
\* get_latest_tweet: "if retry_count >= 3" (line 95).
MaxRetry == 3
\* "+ 5  # Add 5 seconds buffer" (line 160).
Buffer == 5
\* "if wait_time > 300" (line 162), "min(..., 300)" (line 170).
MaxWait == 300
\* "60 * (2 ** retry_count)" (line 170).
BackoffBase == 60
\* check_monthly_reset: "current_date.day >= 27" (line 243), "replace(day=27)"
\* (line 246).
ResetDay == 27
\* "if current_date.month == 12" (line 248).
December == 12

\* ------------------------------------------------------------------ inputs
\* The account lists TWITTER_USERS (line 37) can be configured with.
Configs == {<<"u1">>, <<"u1", "u2">>}

Users == UNION {{c[i] : i \in DOMAIN c} : c \in Configs}

\* The invocations of the process a behaviour follows: MaxRuns for a single
\* account, one for several accounts.
RunsOf(config) == IF Len(config) = 1 THEN MaxRuns ELSE 1

\* The ids of the posts a timeline can hold.
PostIds == {3, 4, 5}

\* A calendar date, as datetime.utcnow() (line 240) and fromisoformat (line
\* 241) give it; the time of day, which check_monthly_reset carries over into
\* last_reset and never reads, is left out.
Date(y, m, d) == [y |-> y, m |-> m, d |-> d]

\* 'last_reset' of a state file that lacks it: '2025-09-27' (lines 70, 75).
InitialReset == Date(2025, 9, 27)

\* The day the runs of the delivery scenarios take place.
DeliveryDay == Date(2025, 10, 27)

\* The days the runs of the calendar scenarios can take place: before, on and
\* past the reset day, in consecutive months across the turn of the year.
ResetDates ==
    {Date(2025, 10, 27), Date(2025, 11, 26), Date(2025, 11, 27),
     Date(2025, 12, 28), Date(2026, 1, 27)}

\* Date a is not after date b.
NotAfter(a, b) ==
    \/ a.y < b.y
    \/ a.y = b.y /\ a.m < b.m
    \/ a.y = b.y /\ a.m = b.m /\ a.d <= b.d

\* The dates of n successive invocations of the process, taken from days.
Schedules(days, n) ==
    {s \in [1..n -> days] : \A i, j \in 1..n : i < j => NotAfter(s[i], s[j])}

\* The revisions of the loop body present in main.py.
Revisions == {"A", "B", "C"}

\* An optional value is a sequence of length at most one: None (Python's
\* None, a missing file, an absent header) or Some(x).
None == <<>>
Some(x) == <<x>>
NoFile == None
NoReset == None

\* A file that holds no JSON document: it is empty or its content is cut
\* short, as open(path, 'w') (lines 57, 79) leaves it until json.dump and the
\* close of the file have written the new content.
Corrupt == <<"no", "document">>

\* How a write of a file can end: the file is written; open fails and nothing
\* is touched; an error is raised after open truncated the file; the process
\* is killed after open truncated the file.
WriteResults == {"written", "refused", "torn", "killed"}

\* x-rate-limit-reset minus time.time() at the moment the response is read,
\* or NoReset when the header is absent (line 158).
ResetHints == {Some(-10), Some(30), Some(295), Some(400), NoReset}

\* A post of a response: its id and whether it carries the 'text' field.
Posts == [id : PostIds, text : BOOLEAN]

\* The sequences over S of length at most n.
SeqsUpTo(S, n) == UNION {[1..k -> S] : k \in 0..n}

\* The number of posts of s without the 'text' field.
Malformed(s) == Cardinality({i \in DOMAIN s : ~s[i].text})

\* The 'data' lists the provider can answer: distinct ids, at most one post
\* without its 'text' field.
Timelines ==
    {s \in SeqsUpTo(Posts, Cardinality(PostIds)) :
        /\ \A i, j \in DOMAIN s : i # j => s[i].id # s[j].id
        /\ Malformed(s) <= 1}

\* ------------------------------------------------- get_latest_tweet, pure
\* What the provider can answer to the user lookup (line 116).
UserResponses ==
    [kind : {"ok", "no_id", "s400", "s404", "error"}, reset : {NoReset}]
        \cup [kind : {"s429"}, reset : ResetHints]

\* What the provider can answer to the tweets request (line 152).
TweetsResponses ==
    [kind : {"error"}, reset : {NoReset}, data : {<<>>}]
        \cup [kind : {"s429"}, reset : ResetHints, data : {<<>>}]
        \cup [kind : {"ok"}, reset : {NoReset}, data : Timelines]

\* The faults an answer of the provider counts for.
FaultsOf(r) ==
    IF r.kind # "ok" THEN 1
    ELSE IF "data" \in DOMAIN r THEN Malformed(r.data) ELSE 0

\* wait_time of line 160, from the reset header relative to now.
WaitTime(reset) == reset[1] + Buffer

Min(a, b) == IF a <= b THEN a ELSE b

\* backoff_time of line 170.
BackoffTime(rc) == Min(BackoffBase * (2 ^ rc), MaxWait)

\* Mutant of IsRateLimited: every answer but a success is retried.
IsRateLimited_AnyError(kind) == kind # "ok"

\* "if tweets_response.status_code == 429" (line 157).
IsRateLimited(kind) == kind = "s429"

\* Mutant of RateLimitTooLong: the wait is never found too long.
RateLimitTooLong_Never(wait) == FALSE

\* "if wait_time > 300" of line 162: the rate limit is too long to wait for.
RateLimitTooLong(wait) == wait > MaxWait

\* "if reset_time: ... if wait_time > 0" of lines 159-161: the branch that
\* sleeps for the provider's reset time; otherwise lines 169-176 apply.
UsesResetTime(reset) == reset # NoReset /\ WaitTime(reset) > 0

\* Mutant of RetriesExhausted: the check of the retry count is missing.
RetriesExhausted_Never(rc) == FALSE

\* "if retry_count >= 3" of line 95.
RetriesExhausted(rc) == rc >= MaxRetry

\* --------------------------------------------------------------- main, pure
\* Mutant of IsNew: the history is not consulted.
IsNew_NoFilter(id, hist) == TRUE

\* "if tweet_id not in history[user]" of lines 313, 334, 379.
IsNew(id, hist) == id \notin hist

\* tweets_response, which B and C read (lines 326-328, 364, 373) and no line
\* of main.py binds: the fetch result as the list of the posts of the
\* response, which is what the fetcher of the specification returns.
FetchedPosts(data) == data

\* Mutant of Candidates: every revision takes the whole response.
Candidates_WholeResponse(r, first, response) == response

\* The candidate list of a revision: [tweet_data] (line 306) for A,
\* tweets_response['data'] (lines 328, 373) for B and C.
Candidates(r, first, response) == IF r = "A" THEN first ELSE response

\* new_tweets before the sort: the candidates whose id is not in the history
\* (lines 310-314, 332-335, 377-380), in the order of the response.
NewTweets(tweets, hist) == SelectSeq(tweets, LAMBDA t : IsNew(t.id, hist))

\* Mutant of Before: the sort is descending (newest first).
Before_Descending(a, b) == a.id > b.id

\* The key of list.sort (lines 317, 338, 384): a is placed before b.
Before(a, b) == a.id < b.id

RECURSIVE SortById(_)
\* new_tweets.sort(key=lambda x: x['id']).
SortById(s) ==
    IF s = <<>> THEN <<>>
    ELSE LET m == CHOOSE i \in DOMAIN s :
                      \A j \in DOMAIN s : j # i => Before(s[i], s[j])
             rest == [k \in 1..(Len(s) - 1) |-> IF k < m THEN s[k] ELSE s[k + 1]]
         IN  <<s[m]>> \o SortById(rest)

\* Revision C appends the id to the history when the post is found new
\* (line 381); A and B append it when the post was sent (line 355).
RecordsWhenFound(r) == r = "C"

\* The history after the filter loop of a revision.
AfterFilter(r, hist, new) ==
    IF RecordsWhenFound(r) THEN hist \cup {new[i].id : i \in DOMAIN new} ELSE hist

\* The history after send_telegram_message returned ok for post id
\* (lines 353-359 for A and B, 398-403 for C).
AfterSend(r, hist, id, ok) ==
    IF ok /\ ~RecordsWhenFound(r) THEN hist \cup {id} ELSE hist

\* The position of the delivery loop after the post at pos was handed to the
\* sink with result ok (lines 341-359, 387-403): the loop goes on to the next
\* post whatever the result.
NextPos(p, ok, n) == p + 1

\* The error the body of a loader raises (lines 46-48, 65-66): open raises
\* FileNotFoundError, json.load raises JSONDecodeError.
LoadError(file) ==
    IF file = NoFile THEN "FileNotFoundError"
    ELSE IF file = Corrupt THEN "JSONDecodeError"
    ELSE "none"

\* Mutant of Caught: the loaders handle the missing file only.
Caught_MissingOnly(error) == error = "FileNotFoundError"

\* "except (FileNotFoundError, json.JSONDecodeError)" (lines 49, 72).
Caught(error) == error \in {"FileNotFoundError", "JSONDecodeError"}

\* The file gives the loader no document.
Unreadable(file) == LoadError(file) # "none"

\* The error of the load leaves the loader for the handler of line 413.
LoadRaises(file) == Unreadable(file) /\ ~Caught(LoadError(file))

\* load_tweet_history (lines 44-52): the content of the file, or an empty
\* history when the file is missing or unreadable.
load_tweet_history(file) == IF Unreadable(file) THEN [u \in Users |-> {}] ELSE file[1]

\* "with open(path, 'w') as f: json.dump(data, f, indent=2)" (lines 57-58,
\* 79-80): the content of the file after the write ended with result.
WriteFile(data, file, result) ==
    CASE result = "written" -> Some(data)
      [] result = "refused" -> file
      [] OTHER -> Corrupt

\* save_tweet_history (lines 54-60): the write, whose errors are caught and
\* logged (lines 59-60).
save_tweet_history(hist, file, result) == WriteFile(hist, file, result)

\* save_state (lines 78-80): the write, whose errors are raised to the caller.
save_state(st, file, result) == WriteFile(st, file, result)

\* The write raised an error to its caller.
Raised(result) == result \in {"refused", "torn"}

\* load_state (lines 63-76): the content of the file, or the initial state
\* when the file is missing or unreadable. The files the program writes hold
\* both keys, so the defaults of lines 67-70 leave them as they are.
load_state(file) ==
    IF Unreadable(file)
    THEN [monthly_api_calls |-> 0, last_reset |-> InitialReset,
          last |-> [u \in Users |-> None]]
    ELSE file[1]

\* next_reset of lines 246-252: the reset day of the current month, or of the
\* month after when the current day is past it.
NextReset(current_date) ==
    IF current_date.d > ResetDay
    THEN IF current_date.m = December
         THEN Date(current_date.y + 1, 1, ResetDay)
         ELSE Date(current_date.y, current_date.m + 1, ResetDay)
    ELSE Date(current_date.y, current_date.m, ResetDay)

\* "if current_date.day >= 27 and current_date.month != last_reset.month"
\* (line 243).
ResetDue(current_date, last_reset) ==
    current_date.d >= ResetDay /\ current_date.m # last_reset.m

\* check_monthly_reset (lines 237-254).
check_monthly_reset(st, current_date) ==
    IF ResetDue(current_date, st.last_reset)
    THEN [st EXCEPT !.monthly_api_calls = 0, !.last_reset = NextReset(current_date)]
    ELSE st

\* -------------------------------------------------------------------- state
VARIABLES
    TWITTER_USERS,    \* the configured accounts, in order (line 37)
    schedule,         \* the dates of the invocations of the process, in order
    feed,             \* the ids of the posts the provider holds
    rev,              \* the revision of the loop body this build executes
    run,              \* number of invocations of main started so far
    pc,               \* position of the process
    index,            \* index of the account of the loop of line 289
    retry_count,      \* get_latest_tweet: retry_count of the current call
    sleeps,           \* the time.sleep calls of the current account's fetch
    attempts,         \* calls of get_latest_tweet that sent a request, this fetch
    resp,             \* the provider's answer read last in this fetch
    tweet_data,       \* what get_latest_tweet returned (line 292)
    tweets_response,  \* the 'data' list of the response read by B and C
    tweets,           \* the candidate posts of the current account
    history,          \* the history dict loaded for the current account
    new_tweets,       \* the sorted new posts of the current account
    pos,              \* position of the delivery loop in new_tweets
    sent,             \* posts handed to send_telegram_message for this account
    state,            \* the state dict of main
    updates_made,     \* updates_made of main
    historyFile,      \* content of tweet_history.json (HISTORY_FILE)
    stateFile,        \* content of state.json (STATE_FILE)
    fetched,          \* accounts get_latest_tweet was called for in this run
    deliveredOk,      \* per account, ids sent successfully in any run so far
    dup,              \* some id was sent successfully a second time
    notified,         \* some post was sent successfully in this run
    lost,             \* some recorded id did not reach the history file
    resets,           \* the dates of the runs that reset the call counter
    faults            \* faults of the environment so far

vars == <<TWITTER_USERS, schedule, feed, resets, rev, run, pc, index, retry_count, sleeps, attempts, resp, tweet_data,
          tweets_response, tweets, history, new_tweets, pos, sent, state,
          updates_made, historyFile, stateFile, fetched, deliveredOk, dup, notified,
          lost, faults>>

fetchVars == <<retry_count, sleeps, attempts, resp, tweet_data, tweets_response>>
batchVars == <<tweets, history, new_tweets, pos, sent>>
ghostVars == <<deliveredOk, dup, notified>>

user == TWITTER_USERS[index]

\* The environment may add n faults.
CanFail(n) == faults + n <= MaxFaults

\* The results of an operation that can fail: FALSE only within the faults
\* the environment is allowed.
Outcomes == IF CanFail(1) THEN BOOLEAN ELSE {TRUE}

\* The results of a write, within the faults the environment is allowed.
WriteOutcomes == IF CanFail(1) THEN WriteResults ELSE {"written"}

\* The state before the first invocation: no file exists yet.
Fresh ==
    /\ rev \in Revisions
    /\ resets = <<>>
    /\ run = 0
    /\ pc = "idle"
    /\ index = 1
    /\ retry_count = 0
    /\ sleeps = <<>>
    /\ attempts = 0
    /\ resp = None
    /\ tweet_data = None
    /\ tweets_response = <<>>
    /\ tweets = <<>>
    /\ history = [u \in Users |-> {}]
    /\ new_tweets = <<>>
    /\ pos = 1
    /\ sent = <<>>
    /\ state = load_state(NoFile)
    /\ updates_made = FALSE
    /\ historyFile = NoFile
    /\ stateFile = NoFile
    /\ fetched = {}
    /\ deliveredOk = [u \in Users |-> {}]
    /\ dup = FALSE
    /\ notified = FALSE
    /\ lost = FALSE
    /\ faults = 0

\* The delivery scenarios: every configuration, every post of the provider,
\* all runs on one day.
Init ==
    /\ TWITTER_USERS \in Configs
    /\ schedule \in Schedules({DeliveryDay}, RunsOf(TWITTER_USERS))
    /\ feed = PostIds
    /\ Fresh

\* The calendar scenarios: one account with one post, runs on any of the
\* dates around the reset days.
InitCalendar ==
    /\ TWITTER_USERS = <<"u1">>
    /\ schedule \in Schedules(ResetDates, MaxRuns)
    /\ feed = {CHOOSE id \in PostIds : \A other \in PostIds : id <= other}
    /\ Fresh

\* The loop of line 289 reaches account i: get_latest_tweet(user) is called
\* with retry_count 0 (line 292), or the loop is over. The locals of the
\* account before are dropped.
BeginFetch(i, seen) ==
    /\ index' = i
    /\ retry_count' = 0
    /\ sleeps' = <<>>
    /\ attempts' = 0
    /\ resp' = None
    /\ tweet_data' = None
    /\ tweets_response' = <<>>
    /\ tweets' = <<>>
    /\ history' = [u \in Users |-> {}]
    /\ new_tweets' = <<>>
    /\ pos' = 1
    /\ sent' = <<>>
    /\ IF i \in DOMAIN TWITTER_USERS
       THEN pc' = "lookup" /\ fetched' = seen \cup {TWITTER_USERS[i]}
       ELSE pc' = "finish" /\ fetched' = seen

\* main, lines 258-288: a new invocation of the process loads the state,
\* checks for the monthly reset and enters the loop over the accounts.
StartRun ==
    /\ pc \in {"idle", "done", "crashed", "killed"}
    /\ run < Len(schedule)
    /\ run' = run + 1
    /\ IF LoadRaises(stateFile)
       THEN /\ pc' = "except"
            /\ UNCHANGED <<state, resets, index, fetchVars, batchVars, fetched>>
       ELSE /\ LET loaded == load_state(stateFile)
                   current_date == schedule[run + 1]
               IN  /\ state' = check_monthly_reset(loaded, current_date)
                   /\ resets' = IF ResetDue(current_date, loaded.last_reset)
                                 THEN Append(resets, current_date) ELSE resets
            /\ BeginFetch(1, {})
    /\ updates_made' = FALSE
    /\ notified' = FALSE
    /\ UNCHANGED <<TWITTER_USERS, schedule, feed, rev, historyFile, stateFile, deliveredOk,
                   dup, lost, faults>>

\* get_latest_tweet, lines 95-97: the retries are used up.
GiveUp ==
    /\ pc = "lookup"
    /\ RetriesExhausted(retry_count)
    /\ tweet_data' = None
    /\ pc' = "fetched"
    /\ UNCHANGED <<TWITTER_USERS, schedule, feed, resets, rev, run, index, retry_count, sleeps, attempts, resp,
                   tweets_response, state, updates_made, historyFile, stateFile,
                   fetched, lost, faults>>
    /\ UNCHANGED <<batchVars, ghostVars>>

\* get_latest_tweet, lines 99-142: the user lookup. Every answer but a user
\* with an id ends the fetch with None: 400 (line 118), 404 (line 131), any
\* other error status, 429 included, or a network failure through
\* raise_for_status and the handler of line 197, a body without id (line 138).
UserLookup ==
    /\ pc = "lookup"
    /\ ~RetriesExhausted(retry_count)
    /\ \E r \in UserResponses :
          /\ CanFail(FaultsOf(r))
          /\ faults' = faults + FaultsOf(r)
          /\ resp' = Some([req |-> "user", kind |-> r.kind, reset |-> r.reset])
          /\ pc' = IF r.kind = "ok" THEN "tweets" ELSE "fetched"
    /\ attempts' = attempts + 1
    /\ tweet_data' = None
    /\ UNCHANGED <<TWITTER_USERS, schedule, feed, resets, rev, run, index, retry_count, sleeps, tweets_response,
                   state, updates_made, historyFile, stateFile, fetched, lost>>
    /\ UNCHANGED <<batchVars, ghostVars>>

\* get_latest_tweet, lines 144-202: the tweets request and what follows it.
TweetsRequest ==
    /\ pc = "tweets"
    /\ \E r \in TweetsResponses :
          /\ {r.data[i].id : i \in DOMAIN r.data} \subseteq feed
          /\ CanFail(FaultsOf(r))
          /\ faults' = faults + FaultsOf(r)
          /\ resp' = Some([req |-> "tweets", kind |-> r.kind, reset |-> r.reset])
          /\ IF IsRateLimited(r.kind)
             THEN IF UsesResetTime(r.reset)
                  THEN IF RateLimitTooLong(WaitTime(r.reset))
                       THEN \* lines 162-164
                            /\ pc' = "fetched"
                            /\ UNCHANGED <<retry_count, sleeps>>
                       ELSE \* lines 165-167
                            /\ sleeps' = Append(sleeps, WaitTime(r.reset))
                            /\ retry_count' = retry_count + 1
                            /\ pc' = "lookup"
                  ELSE \* lines 169-176
                       /\ sleeps' = Append(sleeps, BackoffTime(retry_count))
                       /\ retry_count' = retry_count + 1
                       /\ pc' = "lookup"
             ELSE /\ pc' = "fetched"
                  /\ UNCHANGED <<retry_count, sleeps>>
          /\ IF r.kind = "ok" /\ r.data # <<>>
             THEN \* line 195
                  tweet_data' = Some(r.data[1]) /\ tweets_response' = FetchedPosts(r.data)
             ELSE tweet_data' = None /\ tweets_response' = <<>>
    /\ UNCHANGED <<TWITTER_USERS, schedule, feed, resets, rev, run, index, attempts, state, updates_made, historyFile,
                   stateFile, fetched, lost>>
    /\ UNCHANGED <<batchVars, ghostVars>>

\* Mutant of HasResult: the check of the fetch result is missing.
HasResult_Always(r, first, response) == TRUE

\* "if not tweet_data: continue" (line 297) for A; "if tweets_response and
\* isinstance(tweets_response.get('data'), list)" (line 326) for B; "if not
\* tweets_response or 'data' not in tweets_response: continue" (line 364)
\* for C.
HasResult(r, first, response) ==
    IF r = "A" THEN first # None ELSE response # <<>>

\* main, lines 295-338 (A, B) and 364-384 (C): the call counter, the load of
\* the history, the filter against it and the sort. load_tweet_history
\* writes an empty history when the file is missing or unreadable (line 51),
\* which may fail.
Reconcile ==
    /\ pc = "fetched"
    /\ state' = [state EXCEPT !.monthly_api_calls = @ + 1]
    /\ IF ~HasResult(rev, tweet_data, tweets_response)
       THEN /\ BeginFetch(index + 1, fetched)
            /\ UNCHANGED <<historyFile, faults>>
       ELSE IF LoadRaises(historyFile)
       THEN /\ pc' = "except"
            /\ UNCHANGED <<index, fetchVars, batchVars, fetched, historyFile, faults>>
       ELSE /\ LET loaded == load_tweet_history(historyFile)
                   cands == Candidates(rev, tweet_data, tweets_response)
                   new == SortById(NewTweets(cands, loaded[user]))
               IN  /\ tweets' = cands
                   /\ history' = [loaded EXCEPT ![user] = AfterFilter(rev, @, new)]
                   /\ new_tweets' = new
                   /\ IF Unreadable(historyFile)
                      THEN \E result \in WriteOutcomes :
                              /\ historyFile' = save_tweet_history(loaded, historyFile, result)
                              /\ faults' = IF result = "written" THEN faults ELSE faults + 1
                              /\ pc' = IF result = "killed" THEN "killed" ELSE "deliver"
                      ELSE pc' = "deliver" /\ UNCHANGED <<historyFile, faults>>
            /\ pos' = 1
            /\ sent' = <<>>
            /\ retry_count' = 0
            /\ sleeps' = <<>>
            /\ attempts' = 0
            /\ resp' = None
            /\ tweet_data' = None
            /\ tweets_response' = <<>>
            /\ UNCHANGED <<index, fetched>>
    /\ UNCHANGED <<TWITTER_USERS, schedule, feed, resets, rev, run, updates_made, stateFile, lost, ghostVars>>

\* main, lines 341-359 (A, B) and 387-403 (C): one iteration of the delivery
\* loop. Building the message reads tweet['text'] (lines 348, 393): a post
\* without it raises KeyError, which leaves the loops for the handler of
\* line 413.
Deliver ==
    /\ pc = "deliver"
    /\ pos <= Len(new_tweets)
    /\ LET tweet == new_tweets[pos]
       IN  IF ~tweet.text
           THEN /\ pc' = "except"
                /\ UNCHANGED <<batchVars, state, updates_made, ghostVars, faults>>
           ELSE \E ok \in Outcomes :
                /\ faults' = IF ok THEN faults ELSE faults + 1
                /\ sent' = Append(sent, [id |-> tweet.id, ok |-> ok])
                /\ history' = [history EXCEPT ![user] = AfterSend(rev, @, tweet.id, ok)]
                /\ state' = IF ok THEN [state EXCEPT !.last[user] = Some(tweet.id)] ELSE state
                /\ updates_made' = (updates_made \/ ok)
                /\ deliveredOk' = IF ok THEN [deliveredOk EXCEPT ![user] = @ \cup {tweet.id}]
                                        ELSE deliveredOk
                /\ dup' = (dup \/ (ok /\ tweet.id \in deliveredOk[user]))
                /\ notified' = (notified \/ ok)
                /\ pos' = NextPos(pos, ok, Len(new_tweets))
                /\ UNCHANGED <<pc, tweets, new_tweets>>
    /\ UNCHANGED <<TWITTER_USERS, schedule, feed, resets, rev, run, index, fetchVars, historyFile, stateFile, fetched, lost>>

\* main, lines 361-363 (A, B) and 405-407 (C): the loop is over, the history
\* is saved if there were new posts, and the loop of line 289 goes on, unless
\* the process was killed while it wrote the file.
SaveHistory ==
    /\ pc = "deliver"
    /\ pos > Len(new_tweets)
    /\ IF new_tweets # <<>>
       THEN \E result \in WriteOutcomes :
               /\ historyFile' = save_tweet_history(history, historyFile, result)
               /\ faults' = IF result = "written" THEN faults ELSE faults + 1
               /\ lost' = (lost \/ history # load_tweet_history(historyFile'))
               /\ IF result = "killed"
                  THEN pc' = "killed" /\ UNCHANGED <<index, fetchVars, batchVars, fetched>>
                  ELSE BeginFetch(index + 1, fetched)
       ELSE /\ UNCHANGED <<historyFile, lost, faults>>
            /\ BeginFetch(index + 1, fetched)
    /\ UNCHANGED <<TWITTER_USERS, schedule, feed, resets, rev, run, state, updates_made, stateFile, ghostVars>>

\* Mutant of ShouldSaveState: the state is saved at the end of every run.
ShouldSaveState_Always(updates) == TRUE

\* "if updates_made:" (line 409).
ShouldSaveState(updates) == updates

\* main, lines 409-411: save_state writes the state if a notification was
\* sent; it has no handler of its own, so a failed write raises.
Finish ==
    /\ pc = "finish"
    /\ IF ShouldSaveState(updates_made)
       THEN \E result \in WriteOutcomes :
               /\ stateFile' = save_state(state, stateFile, result)
               /\ faults' = IF result = "written" THEN faults ELSE faults + 1
               /\ pc' = CASE Raised(result) -> "except"
                           [] result = "killed" -> "killed"
                           [] OTHER -> "done"
       ELSE pc' = "done" /\ UNCHANGED <<stateFile, faults>>
    /\ UNCHANGED <<TWITTER_USERS, schedule, feed, resets, rev, run, index, fetchVars, batchVars, state, updates_made,
                   historyFile, fetched, lost, ghostVars>>

\* main, lines 413-418: the handler reports the error and raises it again,
\* which ends the process. What the loop recorded and did not save is lost.
MainExcept ==
    /\ pc = "except"
    /\ pc' = "crashed"
    /\ lost' = (lost \/ history # load_tweet_history(historyFile))
    /\ UNCHANGED <<TWITTER_USERS, schedule, feed, resets, rev, run, index, fetchVars, batchVars, state, updates_made,
                   historyFile, stateFile, fetched, ghostVars, faults>>

Next ==
    \/ StartRun
    \/ GiveUp
    \/ UserLookup
    \/ TweetsRequest
    \/ Reconcile
    \/ Deliver
    \/ SaveHistory
    \/ Finish
    \/ MainExcept

Spec == Init /\ [][Next]_vars

SpecCalendar == InitCalendar /\ [][Next]_vars

\* ------------------------------------------------------------------ claims
Range(s) == {s[i] : i \in DOMAIN s}

\* The ids handed to the sink for the current account, in order.
SentIds == [i \in DOMAIN sent |-> sent[i].id]

\* The ids of the candidate posts, in the order of the response.
TweetIds == [i \in DOMAIN tweets |-> tweets[i].id]

Ascending(s) == \A i, j \in DOMAIN s : i < j => s[i] < s[j]

\* The delivery loop of the current account has gone through new_tweets.
BatchDone == pc = "deliver" /\ pos > Len(new_tweets)

\* The ids of the candidates that the persisted history of the account lacks.
AbsentIds ==
    IF tweets = <<>> THEN {}
    ELSE Range(TweetIds) \ load_tweet_history(historyFile)[user]

RECURSIVE SumSeq(_)
SumSeq(s) == IF s = <<>> THEN 0 ELSE Head(s) + SumSeq(Tail(s))

\* This step reads an answer of the provider to request req, of the given
\* kind and reset header.
Reads(req, kind, reset) ==
    /\ pc = (IF req = "user" THEN "lookup" ELSE "tweets")
    /\ req = "user" => attempts' = attempts + 1
    /\ resp' = Some([req |-> req, kind |-> kind, reset |-> reset])

\* C1: the posts handed to the sink for an account are posts of the fetch
\* result that are absent from the account's history, in ascending id order,
\* and when the delivery loop is through they are all of them.
C1_OldestFirst ==
    /\ Ascending(SentIds)
    /\ Range(SentIds) \subseteq AbsentIds
    /\ BatchDone => Range(SentIds) = AbsentIds

\* C1 witness: the fetch result [5,3,4] with an empty history was sent as
\* 3, 4, 5.
C1_Witness ==
    /\ BatchDone
    /\ TweetIds = <<5, 3, 4>>
    /\ SentIds = <<3, 4, 5>>

\* C2: after a delivery failed, no later post of the batch is handed to the
\* sink in the same run: a failed delivery is the last one of the batch.
C2_FailStop == \A i \in DOMAIN sent : ~sent[i].ok => i = Len(sent)

\* C3: the persisted history of an account contains only ids of posts whose
\* delivery succeeded.
C3_HistoryOnlyDelivered ==
    \A u \in Users : load_tweet_history(historyFile)[u] \subseteq deliveredOk[u]

\* C4: as long as every recorded id reached the history file, no post id is
\* delivered successfully twice, whatever the later runs fetch.
C4_NoDuplicate == ~lost => ~dup

\* C4 witness: a second run fetched posts that were all delivered before,
\* the history was persisted, and the run sent nothing.
C4_Witness ==
    /\ run = 2
    /\ ~lost
    /\ BatchDone
    /\ tweets # <<>>
    /\ Range(TweetIds) \subseteq deliveredOk[user]
    /\ sent = <<>>

\* C5: when a run has ended, every configured account was fetched in it,
\* whatever failed for the accounts before.
C5_AllAccountsFetched ==
    pc \in {"done", "crashed"} => fetched = Range(TWITTER_USERS)

\* C6: a rate-limit answer with a reset time 30 seconds ahead, read as the
\* first answer of a fetch to either request, causes one sleep of 30 seconds
\* plus the buffer and one retry.
C6_SleepThenRetry ==
    [][\A req \in {"user", "tweets"} :
          (Reads(req, "s429", Some(30)) /\ retry_count = 0)
              => /\ sleeps' = <<30 + Buffer>>
                 /\ retry_count' = 1
                 /\ pc' = "lookup"]_vars

\* C7: a rate-limit answer whose wait exceeds the cap ends the fetch with no
\* result, without a sleep and without a retry, and the run goes on with the
\* next account.
C7_TooLongSkips ==
    [][/\ \A req \in {"user", "tweets"} : \A h \in ResetHints \ {NoReset} :
            (Reads(req, "s429", h) /\ WaitTime(h) > MaxWait)
                => /\ sleeps' = sleeps
                   /\ retry_count' = retry_count
                   /\ tweet_data' = None
                   /\ pc' = "fetched"
       /\ (pc = "fetched" /\ tweet_data = None)
             => /\ index' = index + 1
                /\ pc' \in {"lookup", "finish"}
                /\ UNCHANGED <<historyFile, stateFile, deliveredOk>>]_vars

\* C7 witness: the tweets request was answered with a rate limit whose wait
\* exceeds the cap and the fetch has ended.
C7_Witness ==
    /\ pc = "fetched"
    /\ resp = Some([req |-> "tweets", kind |-> "s429", reset |-> Some(400)])
    /\ sleeps = <<>>

\* C8: a rate-limit answer to the tweets request with a reset time for which
\* the wait is not positive is followed by a retry without a sleep.
C8_ImmediateRetry ==
    [][\A h \in ResetHints \ {NoReset} :
          (Reads("tweets", "s429", h) /\ WaitTime(h) <= 0)
              => /\ sleeps' = sleeps
                 /\ retry_count' = retry_count + 1
                 /\ pc' = "lookup"]_vars

\* C9: the sleeps of the fetch of one account add up to at most the cap.
C9_SleepsWithinCap == SumSeq(sleeps) <= MaxWait

\* The process is inside get_latest_tweet.
Fetching == pc \in {"lookup", "tweets"}

\* The requests of the current fetch answered so far: two for each attempt,
\* less the tweets request that is pending.
Progress == 2 * attempts - (IF pc = "tweets" THEN 1 ELSE 0)

\* C10: the fetch of one account makes at most 3 attempts and ends: it can
\* always take a step, and each of its steps either ends it or adds to the
\* requests answered, which 3 attempts bound.
C10_BoundedAttempts ==
    /\ [](attempts <= MaxRetry /\ retry_count <= MaxRetry)
    /\ [](Fetching => ENABLED (GiveUp \/ UserLookup \/ TweetsRequest))
    /\ [][(Fetching /\ Fetching') => Progress' > Progress]_vars

\* C10 witness: the provider answered rate-limited to every attempt and the
\* fetch gave up after the third.
C10_Witness ==
    /\ pc = "fetched"
    /\ attempts = MaxRetry
    /\ retry_count = MaxRetry
    /\ Len(sleeps) = MaxRetry

\* The reset window a date lies in, numbered by month: a window runs from the
\* reset day of a month to the day before the reset day of the next.
Window(date) == 12 * date.y + date.m - (IF date.d < ResetDay THEN 1 ELSE 0)

\* Some run so far reset the call counter in the reset window of date.
ResetIn(date) == \E i \in DOMAIN resets : Window(resets[i]) = Window(date)

\* The run has ended normally and the state file holds its state.
RunSaved == pc = "done" /\ stateFile = Some(state)

\* C11: a run on 2025-10-27 that loads the reset date 2025-09-27 resets the
\* counter to 0 and advances the reset date to 2025-10-27; and a run that
\* follows a run which ended normally and saved its state does not reset the
\* counter when the counter was reset in the same reset window before, be it
\* on the same day.
C11_ResetOncePerWindow ==
    [][run' = run + 1 =>
          /\ (/\ schedule[run'] = Date(2025, 10, 27)
              /\ load_state(stateFile).last_reset = Date(2025, 9, 27))
                => /\ state'.monthly_api_calls = 0
                   /\ state'.last_reset = Date(2025, 10, 27)
          /\ (RunSaved /\ ResetIn(schedule[run'])) => resets' = resets]_vars

\* Some run among those whose dates are in done reset the call counter in the
\* calendar month of date.
ResetInMonth(done, date) ==
    \E i \in DOMAIN done : done[i].y = date.y /\ done[i].m = date.m

\* C12: when a run starts on a day from the reset day on, the counter is reset
\* in that calendar month: by this run, if no run of the month did it before.
C12_NoResetSkipped ==
    [][(run' = run + 1 /\ schedule[run'].d >= ResetDay)
          => ResetInMonth(resets', schedule[run'])]_vars

\* The ids of the sorted new posts of the current account.
NewIds == {new_tweets[i].id : i \in DOMAIN new_tweets}

\* C13: a state file that is missing or corrupt makes the run start from the
\* initial state (counter 0, the initial reset date before the check for the
\* monthly reset, no last post), and a history file that is missing or corrupt
\* makes the account start from an empty history, so that every fetched post
\* is new; neither ends the run with an error.
C13_LoadDefaults ==
    [][/\ (run' = run + 1 /\ Unreadable(stateFile))
            => /\ pc' = "lookup"
               /\ state'.monthly_api_calls = 0
               /\ state'.last = [u \in Users |-> None]
               /\ state'.last_reset \in {InitialReset, NextReset(schedule[run'])}
       /\ (/\ pc = "fetched"
           /\ HasResult(rev, tweet_data, tweets_response)
           /\ Unreadable(historyFile))
            => /\ pc' \in {"deliver", "killed"}
               /\ Len(new_tweets') = Len(tweets')
               /\ \A u \in Users : history'[u] \subseteq NewIds']_vars

\* C13 witness: the first run left both files corrupt; the second run started
\* from the initial state and found the posts delivered before new again.
C13_Witness ==
    /\ run = 2
    /\ stateFile = Corrupt
    /\ historyFile = Some([u \in Users |-> {}])
    /\ pc = "deliver"
    /\ state.last = [u \in Users |-> None]
    /\ new_tweets # <<>>
    /\ NewIds \subseteq deliveredOk[user]

\* This step makes a write of a file that raises an error: the steps at these
\* positions meet no other fault, and the process is not killed.
WriteFailed ==
    /\ \/ pc = "fetched"
       \/ pc = "deliver" /\ pos > Len(new_tweets)
       \/ pc = "finish"
    /\ faults' = faults + 1
    /\ pc' # "killed"

\* C14: a write of the history file or of the state file that fails does not
\* end the run with an error, and leaves what the loaders read from the two
\* files as it was before.
C14_WriteFailureTolerated ==
    [][WriteFailed
          => /\ pc' # "except"
             /\ load_tweet_history(historyFile') = load_tweet_history(historyFile)
             /\ load_state(stateFile') = load_state(stateFile)]_vars

\* C15: when the process is killed during a save, a file that held a document
\* before the save holds a document after it: the old one or the new one.
C15_AtomicSave ==
    [][pc' = "killed"
          => /\ ~Unreadable(historyFile) => historyFile' \in {historyFile, Some(history)}
             /\ ~Unreadable(stateFile) => stateFile' \in {stateFile, Some(state)}]_vars

\* The ids the history file records for account u.
Recorded(file, u) == load_tweet_history(file)[u]

\* C16: unless the process is killed, no step removes an id from what the
\* history file records for an account, and no step delivers a post whose id
\* the history file records for its account.
C16_RecordedForGood ==
    [][pc' # "killed"
          => /\ \A u \in Users : Recorded(historyFile, u) \subseteq Recorded(historyFile', u)
             /\ (Len(sent') > Len(sent) /\ sent'[Len(sent')].ok)
                   => sent'[Len(sent')].id \notin Recorded(historyFile, user)]_vars

DefinitiveErrors(req) ==
    IF req = "user" THEN {"s400", "s404", "no_id", "error"} ELSE {"error"}

\* C18: an answer to either request that is an error other than a rate limit
\* ends the fetch with no result at once, without a sleep and without a
\* retry, and a fetch that has ended makes no further attempt.
C18_ErrorFailsFast ==
    [][/\ \A req \in {"user", "tweets"} : \A kind \in DefinitiveErrors(req) :
            Reads(req, kind, NoReset)
                => /\ pc' = "fetched"
                   /\ tweet_data' = None
                   /\ sleeps' = sleeps
                   /\ retry_count' = retry_count
       /\ pc = "fetched" => (index' # index \/ ~Fetching')]_vars

\* C18 witness: after one rate limit and its sleep, the tweets request of the
\* retry was answered with an error and the fetch has ended.
C18_Witness ==
    /\ pc = "fetched"
    /\ resp = Some([req |-> "tweets", kind |-> "error", reset |-> NoReset])
    /\ retry_count = 1
    /\ Len(sleeps) = 1
    /\ tweet_data = None

\* C19: the state file changes only at the end of a run in which a post was
\* sent successfully; at the end of such a run it takes the state of the run,
\* unless the write fails, and at the end of any other run it is left as it
\* was, so that the calls counted and the reset made by that run are not
\* persisted.
C19_StateSavedIffNotified ==
    [][/\ stateFile' # stateFile => (pc = "finish" /\ notified)
       /\ (pc = "finish" /\ notified /\ faults' = faults)
             => (stateFile' = Some(state) /\ pc' = "done")
       /\ (pc = "finish" /\ ~notified)
             => (stateFile' = stateFile /\ pc' = "done")]_vars

\* C19 witness: the second run reset the counter, counted a call and sent
\* nothing; it has ended and the state file still holds the state of the
\* first run, with the reset date and the counter of that run.
C19_Witness ==
    /\ run = 2
    /\ pc = "done"
    /\ ~notified
    /\ Len(resets) = 2
    /\ stateFile # NoFile
    /\ stateFile # Corrupt
    /\ load_state(stateFile).last_reset # state.last_reset
    /\ state.monthly_api_calls > 0

\* C20 as stated: a run delivers at most one post of an account.
C20_OnePostPerAccount == Cardinality({i \in DOMAIN sent : sent[i].ok}) <= 1

\* C20, amended: get_latest_tweet returns nothing or the first post of the
\* response, and the revision of the loop that takes its result (A) has at
\* most that one candidate and hands at most that one post to the sink; the
\* revisions that read the whole response are not bound to one post.
C20_OnePostInRevisionA ==
    /\ tweet_data # None
          => (tweets_response # <<>> /\ tweet_data = Some(tweets_response[1]))
    /\ rev = "A"
          => /\ Len(tweets) <= 1
             /\ Len(sent) <= 1
             /\ Range(SentIds) \subseteq Range(TweetIds)

\* C20 witness: in revision A the provider answered three posts and the fetch
\* returned the first of them.
C20_Witness ==
    /\ rev = "A"
    /\ pc = "fetched"
    /\ Len(tweets_response) = 3
    /\ tweet_data = Some(tweets_response[1])

====
